---- MODULE Spec2Model ----
(***************************************************************************)
(* State-machine model of CharactersTableComponent (infinite-scroll        *)
(* version, src/unnamed/part_001) together with                            *)
(* RickMortyApiService.getCharacters.                                      *)
(*                                                                         *)
(* Time is abstract: an instant is an integer, a calendar day is DayLen    *)
(* consecutive instants.  A timer (debounceTime, setTimeout) is a pending   *)
(* entry that fires in a later step; an event that arrives while the       *)
(* debounce entry is pending arrived inside the 300 ms window.             *)
(*                                                                         *)
(* Spec is the component on a device of fixed type, SpecResponsive adds    *)
(* the breakpoint observer's re-setup of the scroll observer, SpecDates    *)
(* applies filterByDateRange to date-range cases, SpecLive is the          *)
(* component's fetch cycle under the fairness of HTTP completion.          *)
(* SpecPaginator is the paginated version of the component                 *)
(* (characters-table.component.ts) with its setupDataStream pipe.          *)
(* SpecUrl persists a filter with updateUrlParams and reads it back with   *)
(* loadInitialData.                                                        *)
(***************************************************************************)
EXTENDS Integers, Sequences, FiniteSets, TLC

\* ------------------------------------------------------------------ bounds
\* instants per calendar day (the resolution of the model's clock)
DayLen == 4
\* largest info.pages a response reports
MaxPages == 2
\* largest number of edits inside one debounce window
MaxBurst == 2

\* paginator: largest number of calls outstanding when a further one is made
MaxInFlight == 1

\* ------------------------------------------------------------- data values
\* Date | null of the form controls and "parameter absent" of the URL
Null == <<>>

\* local time = UTC instant + offset; the engine is explored for a browser
\* east of UTC
TZOffsets == {1}

\* filtersForm initial value (FormGroup declaration) / clearFilters value
EmptyForm ==
  [name |-> "", status |-> "", species |-> "", gender |-> "",
   createdStartDate |-> Null, createdEndDate |-> Null]

\* route.snapshot.queryParams with no parameter
EmptyUrl ==
  [name |-> "", status |-> "", species |-> "", gender |-> "",
   createdStartDate |-> Null, createdEndDate |-> Null, page |-> Null]

\* MatDatepicker with the native adapter yields local midnight of the day
PickerDate(day, offset) == day * DayLen - offset

\* values the user can give the form
FormValues(offset) ==
  { EmptyForm,
    [EmptyForm EXCEPT !.name = "Rick",
                      !.createdEndDate = <<PickerDate(2, offset)>>] }

\* query strings the page can be opened with (dates as day numbers)
InitialUrls ==
  { EmptyUrl,
    [EmptyUrl EXCEPT !.status = "Dead", !.createdEndDate = <<2>>,
                     !.page = <<2>>] }

\* Character: id and created (an ISO-8601 UTC string, here the instant)
Item(id, created) == [id |-> id, created |-> created]
Rick == Item(1, 2 * DayLen + (DayLen - 1))
Morty == Item(2, 3 * DayLen)
Summer == Item(3, 1 * DayLen + 1)

\* the result lists of non-empty pages (the API answers an empty result
\* with 404, which getCharacters turns into EmptyResponse)
ResultLists == { <<Summer, Rick, Morty>> }

\* the API returns 20 results per page
PageSize == 20

\* ApiResponse<Character>
Responses ==
  { [results |-> r, count |-> p * PageSize, pages |-> p] :
      r \in ResultLists, p \in 1..MaxPages }

\* what getCharacters' catchError substitutes for a failed HTTP call
EmptyResponse == [results |-> <<>>, count |-> 0, pages |-> 0]

NoRequest == [page |-> 0, append |-> FALSE, name |-> "", status |-> "",
              species |-> "", gender |-> "", superseded |-> FALSE,
              subscribed |-> FALSE, range |-> <<Null, Null>>]

\* ---------------------------------------------------- date-range cases
\* largest calendar day a bound of the range names
MaxDay == 2

\* browsers west of, at and east of UTC
DateOffsets == {-1, 0, 1}

\* a bound comes from the datepicker or from the query string
DateSources == {"picker", "url"}

\* a bound of the range as the day the user names, or none
ChosenDays == {Null} \cup {<<d>> : d \in 1..MaxDay}

\* one character created at every instant of the days 1..MaxDay
Ascending == [i \in 1..(MaxDay * DayLen) |-> Item(i, DayLen + i - 1)]
Descending ==
  [i \in 1..(MaxDay * DayLen) |-> Ascending[MaxDay * DayLen + 1 - i]]
DateLists == {Ascending, Descending}

DateCases ==
  [source : DateSources, start : ChosenDays, end : ChosenDays,
   list : DateLists]

NoDateCase ==
  [source |-> "picker", start |-> Null, end |-> Null, list |-> <<>>]

\* the setupDataStream pipe before it is subscribed: combineLatest has no
\* filters$ value, the subscription has not errored, no call was made
NoStream == [filters |-> <<>>, errored |-> FALSE, latest |-> NoRequest]

VARIABLES
  phase,         \* "constructed" | "running"  (before / after ngOnInit);
                 \* "paginator" | "paginating" in the paginated version
  destroyed,     \* destroy$ has emitted
  tz,            \* local timezone offset of the browser
  dateCase,      \* the date-range case filterByDateRange is applied to
  pageChange,    \* paginator version: value of the BehaviorSubject pageChange$
  dataStream,    \* paginator version: state of the setupDataStream pipe
  url,           \* the route's query parameters
  filtersForm,   \* filtersForm.value
  characters, loading, loadingMore, totalCount, totalPages,
  currentPage, hasMore,
  isLoadingPage,
  debounce,      \* values held by debounceTime(300), oldest first
  distinctPrev,  \* last value distinctUntilChanged let through (<<>>: none)
  inflight,      \* getCharacters calls whose HTTP request is outstanding
  observing,     \* the IntersectionObserver observes the sentinel
  observeTimer,  \* setTimeout(..., 100) of setupIntersectionObserver pending
  resetupTimer,  \* setTimeout(..., 100) of setupBreakpointObserver pending
  queued,        \* an intersecting entry awaits delivery to the callback
  effective,     \* history: form value of the last first-page load issued
  requestedFrom, \* history: characters when the outstanding advance was asked
  burst,         \* history: edits / observer fetches of the current burst
  failed,        \* history: a fetch failed since the last effective change
  recent,        \* history: outcome of the last fetch completion applied
  composition,   \* history: the calls whose pages make up characters
  last           \* history: the last step other than the scroll observer's

engine == <<characters, loading, loadingMore, totalCount, totalPages,
            currentPage, hasMore, isLoadingPage>>

vars == <<phase, destroyed, tz, composition, pageChange, dataStream, dateCase,
          url, filtersForm, characters, loading, loadingMore, totalCount,
          totalPages, currentPage, hasMore, isLoadingPage, debounce,
          distinctPrev, inflight, observing, observeTimer, resetupTimer,
          queued, effective, requestedFrom, burst, failed, recent, last>>

\* the consumer-facing snapshot plus the in-flight gate
Snapshot ==
  [characters |-> characters, loading |-> loading,
   loadingMore |-> loadingMore, totalCount |-> totalCount,
   totalPages |-> totalPages, currentPage |-> currentPage,
   hasMore |-> hasMore, isLoadingPage |-> isLoadingPage]

\* ----------------------------------------------------------- pure helpers
\* Date.prototype.setHours(0, 0, 0, 0): midnight of the LOCAL calendar day
StartOfLocalDay(t, offset) ==
  LET local == t + offset IN (local - (local % DayLen)) - offset

\* Date.prototype.setHours(23, 59, 59, 999): last instant of the local day
EndOfLocalDay(t, offset) == StartOfLocalDay(t, offset) + (DayLen - 1)

PassesDateRangeFrom(character, startDate, endDate, offset) ==
  IF startDate # Null
     /\ character.created < StartOfLocalDay(startDate[1], offset)
    THEN FALSE
  ELSE IF endDate # Null
          /\ character.created < EndOfLocalDay(endDate[1], offset)
    THEN FALSE
  ELSE TRUE

\* the predicate of characters.filter(...) in filterByDateRange
PassesDateRange(character, startDate, endDate, offset) ==
  IF startDate # Null
     /\ character.created < StartOfLocalDay(startDate[1], offset)
    THEN FALSE
  ELSE IF endDate # Null
          /\ character.created > EndOfLocalDay(endDate[1], offset)
    THEN FALSE
  ELSE TRUE

RECURSIVE FilterList(_, _, _, _)
FilterList(list, startDate, endDate, offset) ==
  IF list = <<>> THEN <<>>
  ELSE LET rest == FilterList(Tail(list), startDate, endDate, offset)
       IN  IF PassesDateRange(Head(list), startDate, endDate, offset)
             THEN <<Head(list)>> \o rest
             ELSE rest

filterByDateRange(list, form, offset) ==
  IF form.createdStartDate = Null /\ form.createdEndDate = Null
    THEN list
    ELSE FilterList(list, form.createdStartDate, form.createdEndDate, offset)

\* new Date("YYYY-MM-DD"): midnight UTC of that day
ParseUrlDate(p) == IF p = Null THEN Null ELSE <<p[1] * DayLen>>

\* the filters object of loadInitialData
ParseUrl(params) ==
  [name |-> params.name, status |-> params.status,
   species |-> params.species, gender |-> params.gender,
   createdStartDate |-> ParseUrlDate(params.createdStartDate),
   createdEndDate |-> ParseUrlDate(params.createdEndDate)]

\* new Date(d).toISOString().split('T')[0]: the UTC calendar day
IsoDay(t) == t \div DayLen

\* router.navigate(..., queryParamsHandling: 'merge') with the non-empty
\* fields of the filter: a key that is not passed (page is never passed)
\* keeps its current value
updateUrlParams(params, filters) ==
  [name |-> IF filters.name # "" THEN filters.name ELSE params.name,
   status |-> IF filters.status # "" THEN filters.status ELSE params.status,
   species |-> IF filters.species # "" THEN filters.species ELSE params.species,
   gender |-> IF filters.gender # "" THEN filters.gender ELSE params.gender,
   createdStartDate |->
     IF filters.createdStartDate # Null
       THEN <<IsoDay(filters.createdStartDate[1])>>
       ELSE params.createdStartDate,
   createdEndDate |->
     IF filters.createdEndDate # Null
       THEN <<IsoDay(filters.createdEndDate[1])>>
       ELSE params.createdEndDate,
   page |-> params.page]

\* JSON.stringify of a form value: dates serialise to their UTC instant
JsonStringify(v) ==
  <<v.name, v.status, v.species, v.gender, v.createdStartDate,
    v.createdEndDate>>

\* the apiFilters object of loadCharacters: dates are not sent (range is
\* history: the date range of the form when the call was made)
Request(page, append, form) ==
  [page |-> page, append |-> append, name |-> form.name,
   status |-> form.status, species |-> form.species,
   gender |-> form.gender, superseded |-> FALSE, subscribed |-> TRUE,
   range |-> <<form.createdStartDate, form.createdEndDate>>]

DebounceQueueing(pending, v) == Append(pending, v)

\* debounceTime(300): a new value replaces the pending one, restarts the timer
Debounce(pending, v) == <<v>>

LoadGateOpen == TRUE

\* loadCharacters: if (this.isLoadingPage) return;
LoadGate == ~isLoadingPage

CanLoadNextPageIgnoringHasMore == ~isLoadingPage

\* loadNextPage: if (!this.hasMore() || this.isLoadingPage) return;
CanLoadNextPage == hasMore /\ ~isLoadingPage

MergeReplacing(existing, filtered, append) == filtered

\* next handler: [...this.characters(), ...filtered] or filtered
MergeCharacters(existing, filtered, append) ==
  IF append THEN existing \o filtered ELSE filtered

HasMoreThrough(page, pages) == page <= pages

HasMoreNonEmpty(page, pages) == pages > 0

HasMoreUnlessLast(page, pages) == page # pages

\* next handler: this.hasMore.set(page < response.info.pages)
HasMoreAfter(page, pages) == page < pages

\* the field initialisers of the component
InitialSnapshot ==
  [characters |-> <<>>, loading |-> FALSE, loadingMore |-> FALSE,
   totalCount |-> 0, totalPages |-> 0, currentPage |-> 1,
   hasMore |-> TRUE, isLoadingPage |-> FALSE]

\* the errors an HTTP call fails with (HttpErrorResponse.status)
Causes == {404, 500}
NoCause == 0

ServiceReportSilent(cause) == <<>>

\* catchError of getCharacters: console.error('Error fetching characters:',
\* error)
ServiceReport(cause) == <<cause>>

\* error callback of loadCharacters: console.error('Error loading
\* characters:', error)
ComponentReport(cause) == <<cause>>

\* ------------------------------------------------------------ history step
\* a step of the engine: the operation, whether it issued a fetch, the call
\* and response it handled, the snapshot and the outstanding calls before it
Step(op, issued, req, resp) ==
  [op |-> op, issued |-> issued, req |-> req, resp |-> resp,
   before |-> Snapshot, pending |-> inflight,
   requestedFrom |-> requestedFrom,
   sameAsEffective |-> FALSE, afterFailure |-> FALSE,
   burstEdits |-> 0, cause |-> NoCause, reports |-> <<>>,
   calls |-> IF issued THEN <<req>> ELSE <<>>]

\* a step that is no operation of the engine
Other(op) ==
  [op |-> op, issued |-> FALSE, req |-> NoRequest, resp |-> EmptyResponse,
   before |-> InitialSnapshot, pending |-> {}, requestedFrom |-> <<>>,
   sameAsEffective |-> FALSE, afterFailure |-> FALSE, burstEdits |-> 0,
   cause |-> NoCause, reports |-> <<>>, calls |-> <<>>]

Init ==
  /\ phase = "constructed"
  /\ destroyed = FALSE
  /\ tz \in TZOffsets
  /\ dateCase = NoDateCase
  /\ pageChange = 1
  /\ dataStream = NoStream
  /\ url \in InitialUrls
  /\ filtersForm = EmptyForm
  /\ characters = <<>>
  /\ loading = FALSE
  /\ loadingMore = FALSE
  /\ totalCount = 0
  /\ totalPages = 0
  /\ currentPage = 1
  /\ hasMore = TRUE
  /\ isLoadingPage = FALSE
  /\ debounce = <<>>
  /\ distinctPrev = <<>>
  /\ inflight = {}
  /\ observing = FALSE
  /\ observeTimer = FALSE
  /\ resetupTimer = FALSE
  /\ queued = FALSE
  /\ effective = EmptyForm
  /\ requestedFrom = <<>>
  /\ burst = [edits |-> 0, fetches |-> 0, lastEdit |-> EmptyForm]
  /\ failed = FALSE
  /\ recent = [outcome |-> "none", settled |-> FALSE]
  /\ composition = <<>>
  /\ last = Other("init")

\* loadCharacters(page, append) reading the form value form; others is the
\* set of calls already outstanding
loadCharacters(page, append, form, others) ==
  IF ~LoadGate
    THEN /\ inflight' = others
         /\ UNCHANGED <<isLoadingPage, loading, loadingMore, effective,
                        requestedFrom>>
    ELSE /\ isLoadingPage' = TRUE
         /\ IF page = 1
              THEN loading' = TRUE /\ UNCHANGED loadingMore
              ELSE loadingMore' = TRUE /\ UNCHANGED loading
         /\ inflight' = others \cup {Request(page, append, form)}
         /\ effective' = IF page = 1 THEN form ELSE effective
         /\ requestedFrom' = IF append THEN characters ELSE <<>>

\* ngOnInit: loadInitialData, setupFiltersObserver
ngOnInit ==
  /\ phase = "constructed"
  /\ phase' = "running"
  /\ filtersForm' = ParseUrl(url)
  /\ loadCharacters(1, FALSE, filtersForm', inflight)
  /\ last' = Step("ngOnInit", LoadGate, Request(1, FALSE, filtersForm'),
                  EmptyResponse)
  /\ UNCHANGED <<destroyed, tz, composition, pageChange, dataStream, dateCase,
                 url, characters, totalCount, totalPages, currentPage,
                 hasMore, debounce, distinctPrev, observing, observeTimer,
                 resetupTimer, queued, burst, failed, recent>>

\* ngAfterViewInit: setupIntersectionObserver creates the observer and
\* schedules observe(sentinel) 100 ms later
ngAfterViewInit ==
  /\ phase = "running"
  /\ ~destroyed
  /\ ~observing
  /\ ~observeTimer
  /\ observeTimer' = TRUE
  /\ UNCHANGED <<phase, destroyed, tz, composition, pageChange, dataStream,
                 dateCase, url, filtersForm, engine, debounce, distinctPrev,
                 inflight, observing, resetupTimer, queued, effective,
                 requestedFrom, burst, failed, recent, last>>

\* the setTimeout callback of setupIntersectionObserver
observeTimeout ==
  /\ observeTimer
  /\ observeTimer' = FALSE
  /\ observing' = TRUE
  /\ UNCHANGED <<phase, destroyed, tz, composition, pageChange, dataStream,
                 dateCase, url, filtersForm, engine, debounce, distinctPrev,
                 inflight, resetupTimer, queued, effective, requestedFrom,
                 burst, failed, recent, last>>

\* history: an edit with no timer pending opens a new burst
BurstAfterEdit(v) ==
  IF debounce = <<>>
    THEN [edits |-> 1, fetches |-> 0, lastEdit |-> v]
    ELSE [burst EXCEPT !.edits = @ + 1, !.lastEdit = v]

\* the user edits a filter control: filtersForm.valueChanges emits v
Edit(v) ==
  /\ phase = "running"
  /\ ~destroyed
  /\ debounce # <<>> => burst.edits < MaxBurst
  /\ filtersForm' = v
  /\ debounce' = Debounce(debounce, v)
  /\ burst' = BurstAfterEdit(v)
  /\ last' = Other("edit")
  /\ UNCHANGED <<phase, destroyed, tz, composition, pageChange, dataStream,
                 dateCase, url, engine, distinctPrev, inflight, observing,
                 observeTimer, resetupTimer, queued, effective, requestedFrom,
                 failed, recent>>

clearFiltersKeepsUrl ==
  /\ phase = "running"
  /\ ~destroyed
  /\ debounce # <<>> => burst.edits < MaxBurst
  /\ filtersForm' = EmptyForm
  /\ debounce' = Debounce(debounce, EmptyForm)
  /\ burst' = BurstAfterEdit(EmptyForm)
  /\ last' = Step("clearFilters", FALSE, NoRequest, EmptyResponse)
  /\ UNCHANGED <<phase, destroyed, tz, composition, pageChange, dataStream,
                 dateCase, url, engine, distinctPrev, inflight, observing,
                 observeTimer, resetupTimer, queued, effective, requestedFrom,
                 failed, recent>>

\* clearFilters: filtersForm.reset(...) emits valueChanges; the query
\* parameters are replaced by {}
clearFilters ==
  /\ phase = "running"
  /\ ~destroyed
  /\ debounce # <<>> => burst.edits < MaxBurst
  /\ filtersForm' = EmptyForm
  /\ debounce' = Debounce(debounce, EmptyForm)
  /\ url' = EmptyUrl
  /\ burst' = BurstAfterEdit(EmptyForm)
  /\ last' = Step("clearFilters", FALSE, NoRequest, EmptyResponse)
  /\ UNCHANGED <<phase, destroyed, tz, composition, pageChange, dataStream,
                 dateCase, engine, distinctPrev, inflight, observing,
                 observeTimer, resetupTimer, queued, effective, requestedFrom,
                 failed, recent>>

\* history: the calls outstanding when an effective change is processed
Superseded(reqs) == {[r EXCEPT !.superseded = TRUE] : r \in reqs}

filtersObserverKeepsPage ==
  /\ debounce # <<>>
  /\ LET v == Head(debounce)
         passes == \/ distinctPrev = <<>>
                   \/ JsonStringify(distinctPrev[1]) # JsonStringify(v)
     IN  /\ debounce' = Tail(debounce)
         /\ IF passes
              THEN /\ distinctPrev' = <<v>>
                   /\ characters' = <<>>
                   /\ composition' = <<>>
                   /\ hasMore' = TRUE
                   /\ url' = updateUrlParams(url, filtersForm)
                   /\ loadCharacters(1, FALSE, filtersForm,
                                     Superseded(inflight))
                   /\ burst' = [burst EXCEPT
                                  !.fetches = @ + (IF LoadGate THEN 1 ELSE 0)]
                   /\ failed' = FALSE
                   /\ recent' = [recent EXCEPT !.settled = FALSE]
                   /\ last' = [Step("filtersChanged", LoadGate,
                                    Request(1, FALSE, filtersForm),
                                    EmptyResponse)
                                 EXCEPT !.sameAsEffective = (v = effective),
                                        !.afterFailure = failed,
                                        !.burstEdits = burst.edits]
                   /\ UNCHANGED <<totalCount, totalPages, currentPage>>
              ELSE /\ last' = [Step("filtersUnchanged", FALSE, NoRequest,
                                    EmptyResponse)
                                 EXCEPT !.sameAsEffective = (v = effective),
                                        !.burstEdits = burst.edits]
                   /\ UNCHANGED <<engine, url, distinctPrev, inflight,
                                  effective, requestedFrom, burst, failed,
                                  recent, composition>>
  /\ UNCHANGED <<phase, destroyed, tz, pageChange, dataStream, dateCase,
                 filtersForm, observing, observeTimer, resetupTimer, queued>>

\* the debounce timer elapses: distinctUntilChanged, then the subscriber of
\* setupFiltersObserver
filtersObserver ==
  /\ debounce # <<>>
  /\ LET v == Head(debounce)
         passes == \/ distinctPrev = <<>>
                   \/ JsonStringify(distinctPrev[1]) # JsonStringify(v)
     IN  /\ debounce' = Tail(debounce)
         /\ IF passes
              THEN /\ distinctPrev' = <<v>>
                   /\ currentPage' = 1
                   /\ characters' = <<>>
                   /\ composition' = <<>>
                   /\ hasMore' = TRUE
                   /\ url' = updateUrlParams(url, filtersForm)
                   /\ loadCharacters(1, FALSE, filtersForm,
                                     Superseded(inflight))
                   /\ burst' = [burst EXCEPT
                                  !.fetches = @ + (IF LoadGate THEN 1 ELSE 0)]
                   /\ failed' = FALSE
                   /\ recent' = [recent EXCEPT !.settled = FALSE]
                   /\ last' = [Step("filtersChanged", LoadGate,
                                    Request(1, FALSE, filtersForm),
                                    EmptyResponse)
                                 EXCEPT !.sameAsEffective = (v = effective),
                                        !.afterFailure = failed,
                                        !.burstEdits = burst.edits]
                   /\ UNCHANGED <<totalCount, totalPages>>
              ELSE /\ last' = [Step("filtersUnchanged", FALSE, NoRequest,
                                    EmptyResponse)
                                 EXCEPT !.sameAsEffective = (v = effective),
                                        !.burstEdits = burst.edits]
                   /\ UNCHANGED <<engine, url, distinctPrev, inflight,
                                  effective, requestedFrom, burst, failed,
                                  recent, composition>>
  /\ UNCHANGED <<phase, destroyed, tz, pageChange, dataStream, dateCase,
                 filtersForm, observing, observeTimer, resetupTimer, queued>>

\* the body of loadNextPage
NextPage ==
  IF CanLoadNextPage
    THEN loadCharacters(currentPage + 1, TRUE, filtersForm, inflight)
    ELSE UNCHANGED <<isLoadingPage, loading, loadingMore, inflight, effective,
                     requestedFrom>>

\* loadNextPage() called from outside the scroll observer
loadNextPage ==
  /\ phase = "running"
  /\ ~destroyed
  /\ NextPage
  /\ last' = Step("loadNextPage", CanLoadNextPage /\ LoadGate,
                  Request(currentPage + 1, TRUE, filtersForm), EmptyResponse)
  /\ UNCHANGED <<phase, destroyed, tz, composition, pageChange, dataStream,
                 dateCase, url, filtersForm, characters, totalCount,
                 totalPages, currentPage, hasMore, debounce, distinctPrev,
                 observing, observeTimer, resetupTimer, queued, burst, failed,
                 recent>>

\* setupBreakpointObserver's subscriber when the device type changes: the
\* observer is disconnected and setupIntersectionObserver is scheduled
breakpointChange ==
  /\ phase = "running"
  /\ ~destroyed
  /\ observing' = FALSE
  /\ resetupTimer' = TRUE
  /\ UNCHANGED <<phase, destroyed, tz, composition, pageChange, dataStream,
                 dateCase, url, filtersForm, engine, debounce, distinctPrev,
                 inflight, observeTimer, queued, effective, requestedFrom,
                 burst, failed, recent, last>>

\* the setTimeout callback of setupBreakpointObserver: a new observer is
\* created and observe(sentinel) is scheduled 100 ms later
resetupTimeout ==
  /\ resetupTimer
  /\ resetupTimer' = FALSE
  /\ observeTimer' = TRUE
  /\ UNCHANGED <<phase, destroyed, tz, composition, pageChange, dataStream,
                 dateCase, url, filtersForm, engine, debounce, distinctPrev,
                 inflight, observing, queued, effective, requestedFrom, burst,
                 failed, recent, last>>

\* the sentinel of a live view scrolls into the viewport: the browser queues
\* an intersecting entry for the observer
sentinelIntersects ==
  /\ observing
  /\ ~destroyed
  /\ ~queued
  /\ queued' = TRUE
  /\ UNCHANGED <<phase, destroyed, tz, composition, pageChange, dataStream,
                 dateCase, url, filtersForm, engine, debounce, distinctPrev,
                 inflight, observing, observeTimer, resetupTimer, effective,
                 requestedFrom, burst, failed, recent, last>>

\* the IntersectionObserver callback is delivered the queued intersecting
\* entry; disconnect() does not empty the observer's queue
intersect ==
  /\ queued
  /\ queued' = FALSE
  /\ IF hasMore /\ ~isLoadingPage
       THEN /\ NextPage
            /\ last' = Step("loadNextPage", CanLoadNextPage /\ LoadGate,
                            Request(currentPage + 1, TRUE, filtersForm),
                            EmptyResponse)
       ELSE UNCHANGED <<isLoadingPage, loading, loadingMore, inflight,
                        effective, requestedFrom, last>>
  /\ UNCHANGED <<phase, destroyed, tz, composition, pageChange, dataStream,
                 dateCase, url, filtersForm, characters, totalCount,
                 totalPages, currentPage, hasMore, debounce, distinctPrev,
                 observing, observeTimer, resetupTimer, burst, failed, recent>>

nextHandlerMergesMeta(r, resp) ==
  /\ characters' =
       MergeCharacters(characters,
                       filterByDateRange(resp.results, filtersForm, tz),
                       r.append)
  /\ totalCount' = IF r.append THEN totalCount ELSE resp.count
  /\ totalPages' = IF r.append THEN totalPages ELSE resp.pages
  /\ currentPage' = r.page
  /\ hasMore' = HasMoreAfter(r.page, resp.pages)
  /\ loading' = FALSE
  /\ loadingMore' = FALSE
  /\ isLoadingPage' = FALSE

nextHandlerKeepsLoadingMore(r, resp) ==
  /\ characters' =
       MergeCharacters(characters,
                       filterByDateRange(resp.results, filtersForm, tz),
                       r.append)
  /\ totalCount' = resp.count
  /\ totalPages' = resp.pages
  /\ currentPage' = r.page
  /\ hasMore' = HasMoreAfter(r.page, resp.pages)
  /\ loading' = FALSE
  /\ isLoadingPage' = FALSE
  /\ UNCHANGED loadingMore

\* the next callback of loadCharacters(r.page, r.append) receiving resp
nextHandler(r, resp) ==
  /\ characters' =
       MergeCharacters(characters,
                       filterByDateRange(resp.results, filtersForm, tz),
                       r.append)
  /\ totalCount' = resp.count
  /\ totalPages' = resp.pages
  /\ currentPage' = r.page
  /\ hasMore' = HasMoreAfter(r.page, resp.pages)
  /\ loading' = FALSE
  /\ loadingMore' = FALSE
  /\ isLoadingPage' = FALSE

errorHandlerKeepsLoading(r) ==
  /\ characters' = IF ~r.append THEN <<>> ELSE characters
  /\ isLoadingPage' = FALSE
  /\ hasMore' = FALSE
  /\ UNCHANGED <<loading, loadingMore, totalCount, totalPages, currentPage>>

errorHandlerKeepsHasMore(r) ==
  /\ characters' = IF ~r.append THEN <<>> ELSE characters
  /\ loading' = FALSE
  /\ loadingMore' = FALSE
  /\ isLoadingPage' = FALSE
  /\ UNCHANGED <<hasMore, totalCount, totalPages, currentPage>>

errorHandlerKeepsGate(r) ==
  /\ characters' = IF ~r.append THEN <<>> ELSE characters
  /\ loading' = FALSE
  /\ loadingMore' = FALSE
  /\ hasMore' = FALSE
  /\ UNCHANGED <<isLoadingPage, totalCount, totalPages, currentPage>>

\* the error callback of loadCharacters(r.page, r.append)
errorHandler(r) ==
  /\ characters' = IF ~r.append THEN <<>> ELSE characters
  /\ loading' = FALSE
  /\ loadingMore' = FALSE
  /\ isLoadingPage' = FALSE
  /\ hasMore' = FALSE
  /\ UNCHANGED <<totalCount, totalPages, currentPage>>

\* history: characters after the next callback of call r consists of the
\* page of r, date-filtered with the form's range, after what it had when
\* r appends
Compose(pages, r) ==
  LET page == [page |-> r.page, name |-> r.name, status |-> r.status,
               species |-> r.species, gender |-> r.gender,
               createdStartDate |-> filtersForm.createdStartDate,
               createdEndDate |-> filtersForm.createdEndDate]
  IN  IF r.append THEN Append(pages, page) ELSE <<page>>

\* the HTTP call of r succeeds with resp
getCharactersNext(r, resp) ==
  /\ r \in inflight
  /\ inflight' = inflight \ {r}
  /\ IF r.subscribed
       THEN /\ nextHandler(r, resp)
            /\ failed' = FALSE
            /\ recent' = [outcome |-> "ok", settled |-> TRUE]
            /\ composition' = Compose(composition, r)
       ELSE UNCHANGED <<engine, failed, recent, composition>>
  /\ last' = Step("next", FALSE, r, resp)
  /\ requestedFrom' = <<>>
  /\ UNCHANGED <<phase, destroyed, tz, pageChange, dataStream, dateCase, url,
                 filtersForm, debounce, distinctPrev, observing, observeTimer,
                 resetupTimer, queued, effective, burst>>

\* the HTTP call of r fails: catchError of RickMortyApiService.getCharacters
\* turns the failure into an empty page
getCharactersCatchError(r, cause) ==
  /\ r \in inflight
  /\ inflight' = inflight \ {r}
  /\ IF r.subscribed
       THEN /\ nextHandler(r, EmptyResponse)
            /\ failed' = TRUE
            /\ recent' = [outcome |-> "failed", settled |-> TRUE]
            /\ composition' = Compose(composition, r)
       ELSE UNCHANGED <<engine, failed, recent, composition>>
  /\ last' = [Step("catchError", FALSE, r, EmptyResponse)
                EXCEPT !.cause = cause, !.reports = ServiceReport(cause)]
  /\ requestedFrom' = <<>>
  /\ UNCHANGED <<phase, destroyed, tz, pageChange, dataStream, dateCase, url,
                 filtersForm, debounce, distinctPrev, observing, observeTimer,
                 resetupTimer, queued, effective, burst>>

\* the observable returned by the injected service errors (a service
\* without catchError, as the one the component's tests inject)
loadCharactersError(r, cause) ==
  /\ r \in inflight
  /\ r.subscribed
  /\ inflight' = inflight \ {r}
  /\ errorHandler(r)
  /\ failed' = TRUE
  /\ composition' = IF ~r.append THEN <<>> ELSE composition
  /\ recent' = [outcome |-> "failed", settled |-> TRUE]
  /\ last' = [Step("error", FALSE, r, EmptyResponse)
                EXCEPT !.cause = cause, !.reports = ComponentReport(cause)]
  /\ requestedFrom' = <<>>
  /\ UNCHANGED <<phase, destroyed, tz, pageChange, dataStream, dateCase, url,
                 filtersForm, debounce, distinctPrev, observing, observeTimer,
                 resetupTimer, queued, effective, burst>>

\* ngOnDestroy: destroy$ emits (takeUntil unsubscribes the filter pipe and
\* the outstanding call; shareReplay(1) keeps the HTTP request running),
\* the observer is disconnected
ngOnDestroy ==
  /\ phase = "running"
  /\ ~destroyed
  /\ destroyed' = TRUE
  /\ debounce' = <<>>
  /\ inflight' = {[r EXCEPT !.subscribed = FALSE] : r \in inflight}
  /\ observing' = FALSE
  /\ last' = Other("ngOnDestroy")
  /\ UNCHANGED <<phase, tz, composition, pageChange, dataStream, dateCase,
                 url, filtersForm, engine, distinctPrev, observeTimer,
                 resetupTimer, queued, effective, requestedFrom, burst,
                 failed, recent>>

Next ==
  \/ ngOnInit
  \/ ngAfterViewInit
  \/ observeTimeout
  \/ sentinelIntersects
  \/ \E v \in FormValues(tz) : Edit(v)
  \/ clearFilters
  \/ filtersObserver
  \/ loadNextPage
  \/ intersect
  \/ \E r \in inflight, resp \in Responses : getCharactersNext(r, resp)
  \/ \E r \in inflight, cause \in Causes : getCharactersCatchError(r, cause)
  \/ \E r \in inflight, cause \in Causes : loadCharactersError(r, cause)
  \/ ngOnDestroy

\* the component on a device whose type does not change
Spec == Init /\ [][Next]_vars

\* the HTTP request of some outstanding call completes
Complete ==
  \E r \in inflight :
    \/ \E resp \in Responses : getCharactersNext(r, resp)
    \/ \E cause \in Causes : getCharactersCatchError(r, cause)
    \/ \E cause \in Causes : loadCharactersError(r, cause)

\* the component driven through its form and its public methods (the
\* scroll observer, whose callback only calls loadNextPage, is left out)
NextLive ==
  \/ ngOnInit
  \/ \E v \in FormValues(tz) : Edit(v)
  \/ clearFilters
  \/ filtersObserver
  \/ loadNextPage
  \/ Complete
  \/ ngOnDestroy

\* that component when every remote call it makes completes
SpecLive == Init /\ [][NextLive]_vars /\ WF_vars(Complete)

\* the component on a device whose type changes (a window resized across
\* the Handset / Tablet breakpoints)
NextResponsive ==
  \/ Next
  \/ breakpointChange
  \/ resetupTimeout

SpecResponsive == Init /\ [][NextResponsive]_vars

\* ------------------------------------------------- date-range filtering
\* the Date the datepicker puts into the form for a chosen day
PickedDate(p, offset) ==
  IF p = Null THEN Null ELSE <<PickerDate(p[1], offset)>>

\* the query string that names the bounds of c
DateUrl(c) ==
  [EmptyUrl EXCEPT !.createdStartDate = c.start, !.createdEndDate = c.end]

\* the form value the bounds of c arrive as: picked in the datepicker, or
\* parsed from the query string by loadInitialData
DateForm(c, offset) ==
  IF c.source = "url"
    THEN ParseUrl(DateUrl(c))
    ELSE [EmptyForm EXCEPT
            !.createdStartDate = PickedDate(c.start, offset),
            !.createdEndDate = PickedDate(c.end, offset)]

\* range a lies inside range b (an absent bound is unbounded)
NarrowerRange(a, b) ==
  /\ b.createdStartDate # Null =>
       /\ a.createdStartDate # Null
       /\ a.createdStartDate[1] >= b.createdStartDate[1]
  /\ b.createdEndDate # Null =>
       /\ a.createdEndDate # Null
       /\ a.createdEndDate[1] <= b.createdEndDate[1]

InitDates ==
  /\ phase = "dates"
  /\ destroyed = FALSE
  /\ tz \in DateOffsets
  /\ dateCase \in DateCases
  /\ pageChange = 1
  /\ dataStream = NoStream
  /\ url = (IF dateCase.source = "url" THEN DateUrl(dateCase) ELSE EmptyUrl)
  /\ filtersForm = DateForm(dateCase, tz)
  /\ characters = <<>>
  /\ loading = FALSE
  /\ loadingMore = FALSE
  /\ totalCount = 0
  /\ totalPages = 0
  /\ currentPage = 1
  /\ hasMore = TRUE
  /\ isLoadingPage = FALSE
  /\ debounce = <<>>
  /\ distinctPrev = <<>>
  /\ inflight = {}
  /\ observing = FALSE
  /\ observeTimer = FALSE
  /\ resetupTimer = FALSE
  /\ queued = FALSE
  /\ effective = EmptyForm
  /\ requestedFrom = <<>>
  /\ burst = [edits |-> 0, fetches |-> 0, lastEdit |-> EmptyForm]
  /\ failed = FALSE
  /\ recent = [outcome |-> "none", settled |-> FALSE]
  /\ composition = <<>>
  /\ last = Other("init")

\* filterByDateRange(response.results) with the form's range
applyDateFilter ==
  /\ phase = "dates"
  /\ phase' = "filtered"
  /\ characters' = filterByDateRange(dateCase.list, filtersForm, tz)
  /\ last' = Step("filterByDateRange", FALSE, NoRequest, EmptyResponse)
  /\ UNCHANGED <<destroyed, tz, composition, pageChange, dataStream, dateCase,
                 url, filtersForm, loading, loadingMore, totalCount,
                 totalPages, currentPage, hasMore, isLoadingPage, debounce,
                 distinctPrev, inflight, observing, observeTimer,
                 resetupTimer, queued, effective, requestedFrom, burst,
                 failed, recent>>

\* the same list filtered again with the range c, which lies inside the
\* range used before; effective keeps the wider range and last.before the
\* wider result
narrowDateRange(c) ==
  /\ phase \in {"filtered", "narrowed"}
  /\ phase' = "narrowed"
  /\ c.source = dateCase.source
  /\ c.list = dateCase.list
  /\ c # dateCase
  /\ NarrowerRange(DateForm(c, tz), filtersForm)
  /\ dateCase' = c
  /\ url' = (IF c.source = "url" THEN DateUrl(c) ELSE EmptyUrl)
  /\ filtersForm' = DateForm(c, tz)
  /\ effective' = filtersForm
  /\ characters' = filterByDateRange(c.list, filtersForm', tz)
  /\ last' = Step("filterByDateRange", FALSE, NoRequest, EmptyResponse)
  /\ UNCHANGED <<destroyed, tz, composition, pageChange, dataStream, loading,
                 loadingMore, totalCount, totalPages, currentPage, hasMore,
                 isLoadingPage, debounce, distinctPrev, inflight, observing,
                 observeTimer, resetupTimer, queued, requestedFrom, burst,
                 failed, recent>>

NextDates ==
  \/ applyDateFilter
  \/ \E c \in DateCases : narrowDateRange(c)

\* filterByDateRange applied to every date-range case
SpecDates == InitDates /\ [][NextDates]_vars

\* ------------------------------------------- paginator: setupDataStream
\* The paginated version of the component. It has no loadingMore, hasMore
\* or isLoadingPage and no scroll observer: those variables keep their
\* initial values here. currentPage is the paginator's 0-based pageIndex.

\* the paginated updateUrlParams(filters, page): page is written when > 1
updateUrlParamsWithPage(params, filters, page) ==
  [updateUrlParams(params, filters)
     EXCEPT !.page = IF page > 1 THEN <<page>> ELSE params.page]

MergeMap(reqs) == reqs

\* switchMap: the subscription to the previous call is dropped
SwitchMap(reqs) ==
  {[r EXCEPT !.subscribed = FALSE, !.superseded = TRUE] : r \in reqs}

\* combineLatest emits once both filters$ and pageChange$ have a value and
\* the subscription is alive
Emits == dataStream.filters # <<>> /\ ~dataStream.errored /\ ~destroyed

InitPaginator ==
  /\ phase = "paginator"
  /\ destroyed = FALSE
  /\ tz \in TZOffsets
  /\ dateCase = NoDateCase
  /\ pageChange = 1
  /\ dataStream = NoStream
  /\ url \in InitialUrls
  /\ filtersForm = EmptyForm
  /\ characters = <<>>
  /\ loading = FALSE
  /\ loadingMore = FALSE
  /\ totalCount = 0
  /\ totalPages = 0
  /\ currentPage = 0
  /\ hasMore = TRUE
  /\ isLoadingPage = FALSE
  /\ debounce = <<>>
  /\ distinctPrev = <<>>
  /\ inflight = {}
  /\ observing = FALSE
  /\ observeTimer = FALSE
  /\ resetupTimer = FALSE
  /\ queued = FALSE
  /\ effective = EmptyForm
  /\ requestedFrom = <<>>
  /\ burst = [edits |-> 0, fetches |-> 0, lastEdit |-> EmptyForm]
  /\ failed = FALSE
  /\ recent = [outcome |-> "none", settled |-> FALSE]
  /\ composition = <<>>
  /\ last = Other("init")

\* ngOnInit of the paginated component: loadFiltersFromUrl (the form is
\* patched without an event, a page of the URL goes to currentPage and
\* pageChange$), then setupDataStream: startWith queues the form value
\* behind debounceTime(300)
paginatorOnInit ==
  /\ phase = "paginator"
  /\ phase' = "paginating"
  /\ filtersForm' = ParseUrl(url)
  /\ IF url.page # Null
       THEN /\ currentPage' = url.page[1] - 1
            /\ pageChange' = url.page[1]
       ELSE UNCHANGED <<currentPage, pageChange>>
  /\ debounce' = <<ParseUrl(url)>>
  /\ last' = Step("ngOnInit", FALSE, NoRequest, EmptyResponse)
  /\ UNCHANGED <<destroyed, tz, composition, dataStream, dateCase, url,
                 characters, loading, loadingMore, totalCount, totalPages,
                 hasMore, isLoadingPage, distinctPrev, inflight, observing,
                 observeTimer, resetupTimer, queued, effective, requestedFrom,
                 burst, failed, recent>>

\* the user edits the form: valueChanges emits into debounceTime(300) while
\* the pipe is subscribed
paginatorEdit(v) ==
  /\ phase = "paginating"
  /\ ~destroyed
  /\ v # filtersForm
  /\ filtersForm' = v
  /\ debounce' = IF dataStream.errored THEN <<>> ELSE Debounce(debounce, v)
  /\ last' = Other("edit")
  /\ UNCHANGED <<phase, destroyed, tz, composition, pageChange, dataStream,
                 dateCase, url, engine, distinctPrev, inflight, observing,
                 observeTimer, resetupTimer, queued, effective, requestedFrom,
                 burst, failed, recent>>

\* clearFilters of the paginated component: form reset, query params {}
paginatorClearFilters ==
  /\ phase = "paginating"
  /\ ~destroyed
  /\ filtersForm' = EmptyForm
  /\ debounce' =
       IF dataStream.errored THEN <<>> ELSE Debounce(debounce, EmptyForm)
  /\ url' = EmptyUrl
  /\ last' = Step("clearFilters", FALSE, NoRequest, EmptyResponse)
  /\ UNCHANGED <<phase, destroyed, tz, composition, pageChange, dataStream,
                 dateCase, engine, distinctPrev, inflight, observing,
                 observeTimer, resetupTimer, queued, effective, requestedFrom,
                 burst, failed, recent>>

\* debounceTime(300) fires. A value that passes distinctUntilChanged runs
\* the tap of filters$: currentPage.set(0), pageChange$.next(1). The next(1)
\* reaches combineLatest before the new filter value does: when combineLatest
\* already holds a filter value it emits [that value, 1] first (tap,
\* switchMap, getCharacters), and then [the new value, 1].
dataStreamFilters ==
  /\ phase = "paginating"
  /\ debounce # <<>>
  /\ Cardinality(inflight) <= MaxInFlight
  /\ LET v == Head(debounce)
         passes == \/ distinctPrev = <<>>
                   \/ JsonStringify(distinctPrev[1]) # JsonStringify(v)
         early == IF dataStream.filters # <<>>
                    THEN <<Request(1, FALSE, dataStream.filters[1])>>
                    ELSE <<>>
         fresh == Request(1, FALSE, v)
         url1 == IF dataStream.filters # <<>>
                   THEN updateUrlParamsWithPage(url, dataStream.filters[1], 1)
                   ELSE url
     IN  /\ debounce' = Tail(debounce)
         /\ IF passes
              THEN /\ distinctPrev' = <<v>>
                   /\ currentPage' = 0
                   /\ pageChange' = 1
                   /\ loading' = TRUE
                   /\ url' = updateUrlParamsWithPage(url1, v, 1)
                   /\ inflight' =
                        SwitchMap(SwitchMap(inflight)
                                    \cup {early[i] : i \in 1..Len(early)})
                          \cup {fresh}
                   /\ dataStream' = [dataStream EXCEPT !.filters = <<v>>,
                                                       !.latest = fresh]
                   /\ last' = [Step("filtersChanged", TRUE, fresh,
                                    EmptyResponse)
                                 EXCEPT !.calls = early \o <<fresh>>,
                                        !.afterFailure = failed]
              ELSE /\ last' = Step("filtersUnchanged", FALSE, NoRequest,
                                   EmptyResponse)
                   /\ UNCHANGED <<distinctPrev, currentPage, pageChange,
                                  loading, url, inflight, dataStream>>
  /\ UNCHANGED <<phase, destroyed, tz, composition, dateCase, filtersForm,
                 characters, loadingMore, totalCount, totalPages, hasMore,
                 isLoadingPage, observing, observeTimer, resetupTimer, queued,
                 effective, requestedFrom, burst, failed, recent>>

\* onPageChange(event) with event.pageIndex + 1 = p: the paginator emits
\* when the page index changes
onPageChange(p) ==
  /\ phase = "paginating"
  /\ ~destroyed
  /\ p - 1 # currentPage
  /\ Cardinality(inflight) <= MaxInFlight
  /\ currentPage' = p - 1
  /\ pageChange' = p
  /\ IF Emits
       THEN LET req == Request(p, FALSE, dataStream.filters[1])
            IN  /\ loading' = TRUE
                /\ url' = updateUrlParamsWithPage(url, dataStream.filters[1],
                                                  p)
                /\ inflight' = SwitchMap(inflight) \cup {req}
                /\ dataStream' = [dataStream EXCEPT !.latest = req]
                /\ last' = [Step("pageChange", TRUE, req, EmptyResponse)
                              EXCEPT !.afterFailure = failed]
       ELSE /\ last' = [Step("pageChange", FALSE, NoRequest, EmptyResponse)
                          EXCEPT !.afterFailure = failed]
            /\ UNCHANGED <<loading, url, inflight, dataStream>>
  /\ UNCHANGED <<phase, destroyed, tz, composition, dateCase, filtersForm,
                 characters, loadingMore, totalCount, totalPages, hasMore,
                 isLoadingPage, debounce, distinctPrev, observing,
                 observeTimer, resetupTimer, queued, effective, requestedFrom,
                 burst, failed, recent>>

\* the next callback of the data stream's subscription
dataStreamNextHandler(resp) ==
  /\ characters' = filterByDateRange(resp.results, filtersForm, tz)
  /\ totalCount' = resp.count
  /\ totalPages' = resp.pages
  /\ loading' = FALSE
  /\ UNCHANGED <<loadingMore, currentPage, hasMore, isLoadingPage>>

\* the HTTP call of r succeeds with resp
dataStreamNext(r, resp) ==
  /\ phase = "paginating"
  /\ r \in inflight
  /\ r.subscribed
  /\ inflight' = inflight \ {r}
  /\ dataStreamNextHandler(resp)
  /\ failed' = FALSE
  /\ recent' = [outcome |-> "ok", settled |-> TRUE]
  /\ last' = Step("next", FALSE, r, resp)
  /\ UNCHANGED <<phase, destroyed, tz, composition, pageChange, dataStream,
                 dateCase, url, filtersForm, debounce, distinctPrev,
                 observing, observeTimer, resetupTimer, queued, effective,
                 requestedFrom, burst>>

\* the HTTP call of r fails: the service's catchError delivers an empty page
dataStreamCatchError(r, cause) ==
  /\ phase = "paginating"
  /\ r \in inflight
  /\ r.subscribed
  /\ inflight' = inflight \ {r}
  /\ dataStreamNextHandler(EmptyResponse)
  /\ failed' = TRUE
  /\ recent' = [outcome |-> "failed", settled |-> TRUE]
  /\ last' = [Step("catchError", FALSE, r, EmptyResponse)
                EXCEPT !.cause = cause, !.reports = ServiceReport(cause)]
  /\ UNCHANGED <<phase, destroyed, tz, composition, pageChange, dataStream,
                 dateCase, url, filtersForm, debounce, distinctPrev,
                 observing, observeTimer, resetupTimer, queued, effective,
                 requestedFrom, burst>>

\* the HTTP call of r ends, with a page or a failure, after switchMap or
\* takeUntil dropped its subscription: no callback of the component runs
dataStreamDropped(r) ==
  /\ phase = "paginating"
  /\ r \in inflight
  /\ ~r.subscribed
  /\ inflight' = inflight \ {r}
  /\ last' = Step("dropped", FALSE, r, EmptyResponse)
  /\ UNCHANGED <<phase, destroyed, tz, composition, pageChange, dataStream,
                 dateCase, url, filtersForm, engine, debounce, distinctPrev,
                 observing, observeTimer, resetupTimer, queued, effective,
                 requestedFrom, burst, failed, recent>>

\* the observable returned by the injected service errors: the error passes
\* switchMap and ends the subscription (the error callback runs, and the
\* pipe is unsubscribed from valueChanges and pageChange$)
dataStreamError(r, cause) ==
  /\ phase = "paginating"
  /\ r \in inflight
  /\ r.subscribed
  /\ inflight' = inflight \ {r}
  /\ characters' = <<>>
  /\ loading' = FALSE
  /\ debounce' = <<>>
  /\ dataStream' = [dataStream EXCEPT !.errored = TRUE]
  /\ failed' = TRUE
  /\ recent' = [outcome |-> "failed", settled |-> TRUE]
  /\ last' = [Step("error", FALSE, r, EmptyResponse)
                EXCEPT !.cause = cause, !.reports = ComponentReport(cause)]
  /\ UNCHANGED <<phase, destroyed, tz, composition, pageChange, dateCase, url,
                 filtersForm, loadingMore, totalCount, totalPages,
                 currentPage, hasMore, isLoadingPage, distinctPrev, observing,
                 observeTimer, resetupTimer, queued, effective, requestedFrom,
                 burst>>

\* ngOnDestroy of the paginated component: takeUntil(destroy$) ends the
\* data stream
paginatorOnDestroy ==
  /\ phase = "paginating"
  /\ ~destroyed
  /\ destroyed' = TRUE
  /\ debounce' = <<>>
  /\ inflight' = {[r EXCEPT !.subscribed = FALSE] : r \in inflight}
  /\ last' = Other("ngOnDestroy")
  /\ UNCHANGED <<phase, tz, composition, pageChange, dataStream, dateCase,
                 url, filtersForm, engine, distinctPrev, observing,
                 observeTimer, resetupTimer, queued, effective, requestedFrom,
                 burst, failed, recent>>

NextPaginator ==
  \/ paginatorOnInit
  \/ \E v \in FormValues(tz) : paginatorEdit(v)
  \/ paginatorClearFilters
  \/ dataStreamFilters
  \/ \E p \in 1..MaxPages : onPageChange(p)
  \/ \E r \in inflight :
       \/ \E resp \in Responses : dataStreamNext(r, resp)
       \/ \E cause \in Causes : dataStreamCatchError(r, cause)
       \/ \E cause \in Causes : dataStreamError(r, cause)
       \/ dataStreamDropped(r)
  \/ paginatorOnDestroy

SpecPaginator == InitPaginator /\ [][NextPaginator]_vars

\* ------------------------------------------------------- URL round trip
\* filters the form can hold when it is persisted: text fields typed or
\* not, each bound of the range picked in the datepicker or not
PersistedForms(offset) ==
  { [name |-> n, status |-> st, species |-> "", gender |-> "",
     createdStartDate |-> PickedDate(a, offset),
     createdEndDate |-> PickedDate(b, offset)] :
      n \in {"", "Rick"}, st \in {"", "Dead"}, a \in ChosenDays,
      b \in ChosenDays }

InitUrl ==
  /\ phase = "edited"
  /\ destroyed = FALSE
  /\ tz \in DateOffsets
  /\ dateCase = NoDateCase
  /\ pageChange = 1
  /\ dataStream = NoStream
  /\ url \in InitialUrls
  /\ filtersForm \in PersistedForms(tz)
  /\ characters = <<>>
  /\ loading = FALSE
  /\ loadingMore = FALSE
  /\ totalCount = 0
  /\ totalPages = 0
  /\ currentPage = 1
  /\ hasMore = TRUE
  /\ isLoadingPage = FALSE
  /\ debounce = <<>>
  /\ distinctPrev = <<>>
  /\ inflight = {}
  /\ observing = FALSE
  /\ observeTimer = FALSE
  /\ resetupTimer = FALSE
  /\ queued = FALSE
  /\ effective = EmptyForm
  /\ requestedFrom = <<>>
  /\ burst = [edits |-> 0, fetches |-> 0, lastEdit |-> EmptyForm]
  /\ failed = FALSE
  /\ recent = [outcome |-> "none", settled |-> FALSE]
  /\ composition = <<>>
  /\ last = Other("init")

\* updateUrlParams(filters) with the form's value; effective keeps the
\* filter that was persisted
persistFilter ==
  /\ phase = "edited"
  /\ phase' = "persisted"
  /\ url' = updateUrlParams(url, filtersForm)
  /\ effective' = filtersForm
  /\ last' = Step("updateUrlParams", FALSE, NoRequest, EmptyResponse)
  /\ UNCHANGED <<destroyed, tz, composition, pageChange, dataStream, dateCase,
                 filtersForm, engine, debounce, distinctPrev, inflight,
                 observing, observeTimer, resetupTimer, queued,
                 requestedFrom, burst, failed, recent>>

\* the page is opened again with the persisted query string:
\* loadInitialData patches the form with the parsed parameters and calls
\* loadCharacters(1); effective still keeps the filter that was persisted
loadInitialData ==
  /\ phase = "persisted"
  /\ phase' = "reloaded"
  /\ filtersForm' = ParseUrl(url)
  /\ isLoadingPage' = TRUE
  /\ loading' = TRUE
  /\ inflight' = {Request(1, FALSE, ParseUrl(url))}
  /\ last' = Step("loadInitialData", TRUE, Request(1, FALSE, ParseUrl(url)),
                  EmptyResponse)
  /\ UNCHANGED <<destroyed, tz, composition, pageChange, dataStream, dateCase,
                 url, characters, loadingMore, totalCount, totalPages,
                 currentPage, hasMore, debounce, distinctPrev, observing,
                 observeTimer, resetupTimer, queued, effective,
                 requestedFrom, burst, failed, recent>>

NextUrl ==
  \/ persistFilter
  \/ loadInitialData

\* a filter is persisted and read back, for every timezone offset
SpecUrl == InitUrl /\ [][NextUrl]_vars

\* ------------------------------------------------------------------ claims
Completions == {"next", "catchError", "error"}
Failures == {"catchError", "error"}

\* the last step delivered the outcome of a call to the component
Delivered(ops) == last.op \in ops /\ last.req.subscribed

\* the callback of the delivered call applied the date filter to this list
FilteredResults == filterByDateRange(last.resp.results, filtersForm, tz)

\* a call for page 1 carrying the current form's filter is outstanding
FirstPageOutstanding ==
  \E r \in inflight :
    /\ r.page = 1
    /\ ~r.append
    /\ ~r.superseded
    /\ r.name = filtersForm.name
    /\ r.status = filtersForm.status
    /\ r.species = filtersForm.species
    /\ r.gender = filtersForm.gender

\* the calls of a set, whatever the history recorded about them
Calls(reqs) == {[r EXCEPT !.superseded = FALSE] : r \in reqs}

\* C1: the completion of a fetch that an effective filter change superseded
\* while it was in flight leaves characters, totalCount and totalPages as
\* they were
C1_StaleResponseDiscarded ==
  (Delivered(Completions) /\ last.req.superseded)
    => /\ characters = last.before.characters
       /\ totalCount = last.before.totalCount
       /\ totalPages = last.before.totalPages

\* C2: every effective filter change issues, in the same step, a
\* getCharacters call for page 1 with the new filter values, also while
\* another load is in flight
C2_EffectiveChangeFetchesPageOne ==
  last.op = "filtersChanged"
    => last.issued /\ FirstPageOutstanding

\* C3: a burst of edits, each inside the debounce window of the previous
\* one, makes the filter observer issue at most one fetch, and that fetch
\* carries the values of the last edit of the burst
C3_BurstIssuesOneFetchOfLastEdit ==
  /\ burst.fetches <= 1
  /\ (last.op = "filtersChanged" /\ last.issued)
       => \E r \in inflight :
            /\ r.page = 1
            /\ ~r.superseded
            /\ r.name = burst.lastEdit.name
            /\ r.status = burst.lastEdit.status
            /\ r.species = burst.lastEdit.species
            /\ r.gender = burst.lastEdit.gender

\* a burst of at least two edits ended in a fetch
C3_Witness ==
  /\ last.op = "filtersChanged"
  /\ last.issued
  /\ last.burstEdits >= 2
  /\ burst.fetches = 1

\* C4: a debounced emission equal to the currently effective filter issues
\* no fetch and changes no engine state
C4_UnchangedFilterIsNoOp ==
  (last.op \in {"filtersChanged", "filtersUnchanged"} /\ last.sameAsEffective)
    => /\ ~last.issued
       /\ Calls(inflight) = Calls(last.pending)
       /\ Snapshot = last.before

\* C5: loadNextPage (called directly or by the intersection callback) while
\* hasMore is false or a load is outstanding issues no fetch and leaves the
\* engine state as it was
C5_LoadNextPageGuarded ==
  (/\ last.op = "loadNextPage"
   /\ (~last.before.hasMore \/ last.pending # {}))
    => /\ ~last.issued
       /\ inflight = last.pending
       /\ Snapshot = last.before

\* loadNextPage was called on a loaded list with hasMore false and nothing
\* outstanding
C5_Witness ==
  /\ last.op = "loadNextPage"
  /\ ~last.before.hasMore
  /\ last.pending = {}
  /\ last.before.characters # <<>>

\* C6: at most one getCharacters request of the engine is outstanding
C6_AtMostOneOutstanding == Cardinality(inflight) <= 1

\* an effective filter change was processed while a load was outstanding
C6_Witness ==
  /\ last.op = "filtersChanged"
  /\ last.pending # {}
  /\ inflight # {}

\* C7: a successful first-page load sets characters to the date-filtered
\* items of the response; a successful page-advance appends them to the
\* list as it was, which keeps its items, order and positions
C7_SuccessReplacesOrAppends ==
  Delivered({"next"})
    => IF last.req.append
         THEN /\ Len(characters) =
                   Len(last.before.characters) + Len(FilteredResults)
              /\ \A i \in 1..Len(last.before.characters) :
                   characters[i] = last.before.characters[i]
              /\ \A i \in 1..Len(FilteredResults) :
                   characters[Len(last.before.characters) + i] =
                     FilteredResults[i]
         ELSE characters = FilteredResults

\* a page-advance appended a page that the date filter narrowed and that
\* repeats an item already in the list
C7_Witness ==
  /\ Delivered({"next"})
  /\ last.req.append
  /\ last.before.characters # <<>>
  /\ FilteredResults # <<>>
  /\ Len(FilteredResults) < Len(last.resp.results)
  /\ \E i \in 1..Len(last.before.characters) :
       last.before.characters[i] = FilteredResults[1]

\* C8: after a failed first-page fetch characters is empty, hasMore is
\* false, loading and loadingMore are false
C8_FirstPageFailure ==
  (Delivered(Failures) /\ ~last.req.append)
    => /\ characters = <<>>
       /\ ~hasMore
       /\ ~loading
       /\ ~loadingMore

\* the error callback handled the failure of a first-page fetch
C8_Witness ==
  /\ Delivered({"error"})
  /\ ~last.req.append
  /\ last.before.hasMore

\* C9: after a failed page-advance characters is the list held when the
\* advance was requested, hasMore is false and loadingMore is false
C9_AdvanceFailureKeepsList ==
  (Delivered(Failures) /\ last.req.append)
    => /\ characters = last.requestedFrom
       /\ ~hasMore
       /\ ~loadingMore

\* C10: a fetch failure releases the in-flight gate and the loading flags,
\* and the next effective filter change issues a page-1 fetch
C10_UsableAfterFailure ==
  /\ (failed /\ ~destroyed)
       => ~isLoadingPage /\ ~loading /\ ~loadingMore /\ inflight = {}
  /\ (last.op = "filtersChanged" /\ last.afterFailure)
       => last.issued /\ FirstPageOutstanding

\* the first effective filter change after a failure issued its fetch
C10_Witness ==
  /\ last.op = "filtersChanged"
  /\ last.afterFailure
  /\ FirstPageOutstanding

\* C11: after a successful fetch of page p whose response reports T pages is
\* applied, hasMore is exactly (p < T): false on the last (or only) page,
\* true when pages remain
C11_HasMoreIffPagesRemain ==
  Delivered({"next"}) =>
    /\ hasMore = (last.req.page < last.resp.pages)
    /\ currentPage = last.req.page
    /\ totalPages = last.resp.pages

C11_Witness ==
  /\ Delivered({"next"})
  /\ last.req.page = last.resp.pages
  /\ last.before.hasMore
  /\ ~hasMore

\* the most recent fetch whose outcome was applied failed
MostRecentFetchFailed == recent.outcome = "failed"

\* C12: in every reachable state hasMore is false whenever
\* currentPage >= totalPages or the most recent fetch failed
C12_HasMoreFalseAtEndOrFailure ==
  (currentPage >= totalPages \/ MostRecentFetchFailed) => ~hasMore

\* C12 (amended): from the moment the outcome of a fetch is applied until the
\* next effective filter change, hasMore is false whenever
\* currentPage >= totalPages or that fetch failed; before the first outcome
\* and after each effective filter change hasMore is true, whatever
\* currentPage, totalPages and the outcome of the fetch before
C12_HasMoreFalseOnceSettled ==
  IF recent.settled
    THEN (currentPage >= totalPages \/ MostRecentFetchFailed) => ~hasMore
    ELSE hasMore

C12_Witness ==
  /\ recent.settled
  /\ MostRecentFetchFailed
  /\ currentPage < totalPages
  /\ ~hasMore

\* C13: loading and loadingMore are never both true; while a fetch is
\* outstanding the flag of its kind (loading for a first-page fetch,
\* loadingMore for a page-advance) is the one that is true, and with no
\* fetch outstanding on a live component both are false
C13_LoadingFlagsMatchFetch ==
  /\ ~(loading /\ loadingMore)
  /\ \A r \in inflight :
       IF r.page = 1 /\ ~r.append
         THEN loading /\ ~loadingMore
         ELSE loadingMore /\ ~loading
  /\ (inflight = {} /\ ~destroyed) => (~loading /\ ~loadingMore)

C13_Witness ==
  /\ \E r \in inflight : r.append /\ r.page > 1
  /\ loadingMore
  /\ ~loading
  /\ last.op = "filtersChanged"

\* C14: after ngOnDestroy no step mutates the engine state or issues a new
\* fetch, whatever fetch completions, debounce timers, breakpoint re-setup
\* timers or intersection callbacks were pending at teardown
C14_NoMutationAfterDestroy ==
  [][destroyed => (UNCHANGED engine /\ inflight' \subseteq inflight)]_vars

\* the text fields of the filter
TextFields == {"name", "status", "species", "gender"}

\* C15: after a persist the URL has a key for a filter field exactly when
\* the field is non-empty in the current filter, and the page key exactly
\* when the current page is above 1 (a cleared field leaves no key behind)
C15_UrlKeysMatchFilterAndPage ==
  last.op = "filtersChanged" =>
    /\ \A f \in TextFields : (url[f] # "") <=> (filtersForm[f] # "")
    /\ (url.createdStartDate # Null) <=> (filtersForm.createdStartDate # Null)
    /\ (url.createdEndDate # Null) <=> (filtersForm.createdEndDate # Null)
    /\ (url.page # Null) <=> (currentPage > 1)

\* the URL carries every non-empty field of the current filter
UrlCarriesFilter ==
  /\ \A f \in TextFields : filtersForm[f] # "" => url[f] = filtersForm[f]
  /\ filtersForm.createdStartDate # Null =>
       url.createdStartDate = <<IsoDay(filtersForm.createdStartDate[1])>>
  /\ filtersForm.createdEndDate # Null =>
       url.createdEndDate = <<IsoDay(filtersForm.createdEndDate[1])>>

\* the URL carries the current page (no key for page 1)
UrlCarriesPage ==
  url.page = IF currentPage > 1 THEN <<currentPage>> ELSE Null

\* C16: an effective filter change and a successful page-advance are each
\* followed by a persist carrying the current filter and the current page
C16_ChangesArePersisted ==
  /\ last.op = "filtersChanged" => UrlCarriesFilter
  /\ (Delivered({"next"}) /\ last.req.append /\ currentPage > 1) =>
       UrlCarriesPage

\* C17: the first fetch after initialisation requests the filter and the
\* page read from the URL: page n when the URL holds page = n > 1
C17_InitialFetchFromUrl ==
  last.op = "ngOnInit" =>
    \E r \in inflight :
      /\ \A f \in TextFields : r[f] = url[f]
      /\ r.page = IF url.page = Null THEN 1 ELSE url.page[1]

\* C18: clearFilters takes effect in the same step: the filter is the empty
\* filter, the page 1, characters cleared and a first-page fetch issued
C18_ClearFiltersImmediate ==
  last.op = "clearFilters" =>
    /\ filtersForm = EmptyForm
    /\ currentPage = 1
    /\ characters = <<>>
    /\ last.issued
    /\ FirstPageOutstanding

\* C18 (amended): clearFilters sets the form to the empty filter, empties
\* the URL query and restarts the debounce window with the empty filter; in
\* that step page, characters, hasMore and the loading flags keep their
\* values and no fetch is issued
C18_ClearFiltersDebounced ==
  last.op = "clearFilters" =>
    /\ filtersForm = EmptyForm
    /\ url = EmptyUrl
    /\ debounce = <<EmptyForm>>
    /\ Snapshot = last.before
    /\ inflight = last.pending

C18_Witness ==
  /\ last.op = "clearFilters"
  /\ currentPage > 1
  /\ characters # <<>>
  /\ inflight = {}
  /\ last.before.currentPage = currentPage

RECURSIVE IsSubList(_, _)
\* a can be obtained from b by deleting elements
IsSubList(a, b) ==
  IF a = <<>> THEN TRUE
  ELSE IF b = <<>> THEN FALSE
  ELSE IF Head(a) = Head(b) THEN IsSubList(Tail(a), Tail(b))
  ELSE IsSubList(a, Tail(b))

\* C19: with neither bound filterByDateRange returns its input unchanged,
\* and the result for a range is a sub-list of the result for any range
\* that contains it (narrowing never yields more items)
C19_NoBoundsIdentityAndMonotone ==
  /\ (/\ phase \in {"filtered", "narrowed"}
      /\ filtersForm.createdStartDate = Null
      /\ filtersForm.createdEndDate = Null) => characters = dateCase.list
  /\ phase = "narrowed" => IsSubList(characters, last.before.characters)

C19_Witness ==
  /\ phase = "narrowed"
  /\ characters # <<>>
  /\ Len(characters) < Len(last.before.characters)
  /\ Len(last.before.characters) < Len(dateCase.list)

\* the instant lies in the days start..end, counted in the time reference
\* of the created timestamps (UTC)
InChosenDays(t, start, end) ==
  /\ start # Null => t >= start[1] * DayLen
  /\ end # Null => t <= end[1] * DayLen + (DayLen - 1)

\* C20: an item passes exactly when its created instant lies between the
\* first instant of the start day and the last instant of the end day, in
\* the time reference of the timestamps; so for every timezone offset an item
\* created at any instant of the end day is included, also when the bound
\* was read from the URL
C20_WholeDaysOfTheTimestamps ==
  phase \in {"filtered", "narrowed"} =>
    \A i \in DOMAIN dateCase.list :
      (\E j \in DOMAIN characters : characters[j] = dateCase.list[i])
        <=> InChosenDays(dateCase.list[i].created, dateCase.start,
                         dateCase.end)

\* C21: a fetch failure is reported to console.error exactly once, with the
\* error the call failed with; it is handled by a callback (the component
\* keeps running), and no other step reports anything
C21_FailureReportedOnce ==
  /\ last.op \in Failures =>
       /\ last.cause \in Causes
       /\ last.reports = <<last.cause>>
       /\ phase = "running"
  /\ last.op \notin Failures => last.reports = <<>>

C21_Witness ==
  /\ last.op = "catchError"
  /\ last.req.append
  /\ last.reports = <<500>>

\* C22: from a fetch failure until the next effective filter change hasMore
\* is false, no page-advance is outstanding and a loadNextPage call issues
\* nothing
C22_NoAdvanceAfterFailure ==
  failed =>
    /\ ~hasMore
    /\ \A r \in inflight : ~r.append
    /\ last.op = "loadNextPage" => (~last.issued /\ inflight = last.pending)

\* loadNextPage was called after a failed advance that left pages unloaded
C22_Witness ==
  /\ failed
  /\ last.op = "loadNextPage"
  /\ last.before.currentPage < last.before.totalPages
  /\ last.before.characters # <<>>
  /\ ~last.issued

\* C23: right after an effective filter change is processed currentPage is
\* 1, characters is empty and hasMore is true, whatever the state before
\* (after a failure, at the last page)
C23_FilterChangeResets ==
  last.op = "filtersChanged" =>
    /\ currentPage = 1
    /\ characters = <<>>
    /\ hasMore

\* the change was processed after a failed advance beyond page 1
C23_Witness ==
  /\ last.op = "filtersChanged"
  /\ last.afterFailure
  /\ last.before.currentPage > 1
  /\ last.before.characters # <<>>
  /\ ~last.before.hasMore
  /\ currentPage = 1

\* C24: after a successful fetch, page-advances included, totalCount and
\* totalPages are the count and pages of that response (replaced, not
\* merged with the values before) and currentPage is the page requested
C24_MetaReplacedByResponse ==
  Delivered({"next"}) =>
    /\ totalCount = last.resp.count
    /\ totalPages = last.resp.pages
    /\ currentPage = last.req.page

\* a page-advance whose response reports other totals than the page before
C24_Witness ==
  /\ Delivered({"next"})
  /\ last.req.append
  /\ last.before.totalPages > last.resp.pages
  /\ last.before.totalCount # last.resp.count
  /\ totalPages = last.resp.pages

\* C25: an accepted page-advance requests page currentPage + 1 with append,
\* and currentPage changes only by +1 through a successful page-advance or
\* to 1 through an effective filter change (no page is skipped)
C25_PageAdvancesByOne ==
  [][/\ (last' # last /\ last'.op = "loadNextPage" /\ last'.issued) =>
          /\ last'.req.page = currentPage + 1
          /\ last'.req.append
          /\ last'.req \in inflight'
     /\ currentPage' # currentPage =>
          \/ /\ currentPage' = 1
             /\ last'.op = "filtersChanged"
          \/ /\ currentPage' = currentPage + 1
             /\ last'.op = "next"
             /\ last'.req.append]_vars

\* C26: when every remote call completes, a loading or loadingMore that is
\* true becomes false again unless the component is destroyed first
C26_LoadingEventuallyClears ==
  (loading \/ loadingMore) ~> ((~loading /\ ~loadingMore) \/ destroyed)

\* a completion cleared the flag its call had set
C26_Witness ==
  /\ Delivered(Completions)
  /\ last.before.loadingMore
  /\ ~loading
  /\ ~loadingMore
  /\ ~destroyed

\* the calls of the data stream whose response would still be applied
Subscribed == {r \in inflight : r.subscribed}

\* C27: in the paginator data stream only the response of the most recently
\* issued call is applied to characters, totalCount and totalPages, in
\* whatever order the responses arrive: at most one call is subscribed and
\* it is the latest one, a response that is applied belongs to the latest
\* call, and the response of a superseded call changes nothing.
C27_OnlyLatestResponseApplied ==
  /\ Cardinality(Subscribed) <= 1
  /\ \A r \in Subscribed : r = dataStream.latest
  /\ last.op \in {"next", "catchError"} =>
       /\ last.req = dataStream.latest
       /\ characters = filterByDateRange(last.resp.results, filtersForm, tz)
       /\ totalCount = last.resp.count
       /\ totalPages = last.resp.pages
  /\ last.op = "dropped" =>
       /\ last.req.superseded \/ destroyed
       /\ Snapshot = last.before

\* the response of a superseded call arrives after the response of the
\* latest call was applied, and the applied page stays
C27_Witness ==
  /\ last.op = "dropped"
  /\ last.req.superseded
  /\ last.req.page # dataStream.latest.page
  /\ ~destroyed
  /\ Subscribed = {}
  /\ ~loading
  /\ characters # <<>>

\* C28: in the paginator data stream each effective filter change causes
\* exactly one getCharacters call, and that call carries the new filter
\* with page 1.
C28_OneCallPerFilterChange ==
  last.op = "filtersChanged" =>
    /\ Len(last.calls) = 1
    /\ last.calls[1] = Request(1, FALSE, distinctPrev[1])

\* C29: in the paginator data stream, after a getCharacters call failed, a
\* later page change or effective filter change still issues a new fetch.
C29_FetchAfterFailure ==
  (last.op \in {"pageChange", "filtersChanged"} /\ last.afterFailure) =>
    last.issued

\* the filter in effect: the last value the filter observer let through,
\* before any the value the initial load was made with
EffectiveFilter == IF distinctPrev # <<>> THEN distinctPrev[1] ELSE effective

\* page n fetched with filter f and date-filtered with the range of f
PageUnder(n, f) ==
  [page |-> n, name |-> f.name, status |-> f.status, species |-> f.species,
   gender |-> f.gender, createdStartDate |-> f.createdStartDate,
   createdEndDate |-> f.createdEndDate]

\* C30: whenever no load is in flight and the last fetch succeeded,
\* characters is the concatenation, in page order, of the date-filtered
\* pages 1..currentPage fetched with the currently effective filter.
C30_CharactersAreLoadedPages ==
  (~isLoadingPage /\ debounce = <<>> /\ recent.outcome = "ok") =>
    composition = [n \in 1..currentPage |-> PageUnder(n, EffectiveFilter)]

\* C31: every fetch is issued with the currently effective filter: an
\* advance made while a filter edit is inside its debounce window asks for
\* the next page of the loaded filter, not of the pending edit.
C31_FetchUsesEffectiveFilter ==
  last.issued =>
    last.req = Request(last.req.page, last.req.append, EffectiveFilter)

\* the form whose date range is the one call r was made with
RangeAtIssue(r) ==
  [filtersForm EXCEPT !.createdStartDate = r.range[1],
                      !.createdEndDate = r.range[2]]

\* C32: the creation-date range applied to a response is the range in
\* effect when its fetch was issued; editing the date fields while the
\* fetch is in flight does not change how the response is filtered.
C32_RangeOfIssueApplied ==
  Delivered({"next"}) =>
    characters =
      MergeCharacters(last.before.characters,
                      filterByDateRange(last.resp.results,
                                        RangeAtIssue(last.req), tz),
                      last.req.append)

\* C33: when the HTTP request behind a page advance fails, totalCount,
\* totalPages and currentPage keep the values of the last successful load
\* and the accumulated characters are preserved.
C33_FailedAdvanceKeepsMeta ==
  (Delivered(Failures) /\ last.req.append) =>
    /\ totalCount = last.before.totalCount
    /\ totalPages = last.before.totalPages
    /\ currentPage = last.before.currentPage
    /\ characters = last.before.characters

\* the local calendar day of an instant, as the datepicker shows it and as
\* filterByDateRange's setHours reads it
LocalDay(t, offset) == (t + offset) \div DayLen

\* both absent, or both present and on the same local calendar day
SameCalendarDay(a, b, offset) ==
  \/ a = Null /\ b = Null
  \/ /\ a # Null
     /\ b # Null
     /\ LocalDay(a[1], offset) = LocalDay(b[1], offset)

\* C34: a filter persisted with updateUrlParams and read back by
\* loadInitialData is the same filter: the text fields are equal and the
\* bounds of the date range denote the same calendar days, for every
\* timezone offset.
C34_UrlRoundTrip ==
  phase = "reloaded" =>
    /\ \A f \in TextFields : filtersForm[f] = effective[f]
    /\ SameCalendarDay(filtersForm.createdStartDate,
                       effective.createdStartDate, tz)
    /\ SameCalendarDay(filtersForm.createdEndDate,
                       effective.createdEndDate, tz)
====
